---- MODULE Spec2Model ----
(***************************************************************************)
(* The descriptor-based ML notebook                                        *)
(* 01_machineLearning/part-2_ml-with-materials-data/                       *)
(* 0_ml-using-chemical-descriptors.ipynb as a state machine: one action    *)
(* per executed cell (or per method call of a cell that chains two), the   *)
(* notebook's variables as state.  The table sizes are scaled down: the    *)
(* 1024 sampled molecules become SampleSize rows and Mordred's descriptor  *)
(* vocabulary becomes NCols columns.  Numbers are kept exact: a mean is a  *)
(* pair <<sum, n>>, a variance is n*sum(x^2) - sum(x)^2 (n^2 times the     *)
(* population variance), so "std = 0" is exact and not a rounding matter.  *)
(***************************************************************************)
EXTENDS Integers, Sequences, FiniteSets, TLC

\* ---------------------------------------------------------------- bounds
SampleSize == 11      \* rows kept by .sample(...) (1024 in the notebook)
MaxExtra == 1         \* the file holds SampleSize .. SampleSize+MaxExtra records
NCols == 2            \* descriptors computed per molecule

\* ------------------------------------------------------ program constants
Seed == 128           \* np.random.seed(128)
TestSizeNum == 1      \* test_size=0.1 as TestSizeNum / TestSizeDen
TestSizeDen == 10
NComp16 == 16         \* PCA(n_components=16)
NComp8 == 8           \* model.set_params(pca__n_components=8)

Col16 == "16-ncomp-model"
Col8 == "8-ncomp-model"
PlotCols == <<Col8, Col16>>   \* the order of the plotting loop

\* A cell of the descriptor table is a number >= 0, a float NaN, or a Mordred
\* error object (a non-numeric Python object in an object-dtype column).
NaN == -1
Err == -2
IsNum(x) == x >= 0

\* What the black-box regressor may output for one row.
PredVals == {1, 2}

\* The kinds of descriptor column the file's molecules give rise to:
\*   const  the same number for every molecule
\*   vary   one molecule (qm9.e) has another number
\*   err    the descriptor raises for molecule qm9.e (an error object)
\*   nan    the descriptor is NaN for molecule qm9.e
\*   allnan the descriptor is NaN for every molecule
Kinds == {"const", "vary", "err", "nan", "allnan"}

VARIABLES pc, rng, qm9, data, calc_mols, desc, zero_variation, missing_values,
          scaler, train_data, test_data, train_desc, test_desc, model,
          predicted, predicted_by, plot_i, reports

vars == <<pc, rng, qm9, data, calc_mols, desc, zero_variation, missing_values,
          scaler, train_data, test_data, train_desc, test_desc, model,
          predicted, predicted_by, plot_i, reports>>

\* ------------------------------------------------------------ sequences
RECURSIVE SumSeq(_)
SumSeq(s) == IF s = <<>> THEN 0 ELSE Head(s) + SumSeq(Tail(s))

Range(s) == {s[i] : i \in DOMAIN s}

Swap(x, i, j) == [x EXCEPT ![i] = x[j], ![j] = x[i]]

\* positional indexing (iloc): the rows of arr at the positions idx, in idx's order
SafeIndexing(arr, idx) == [k \in 1..Len(idx) |-> arr[idx[k]]]

\* ------------------------------------------------- the global numpy RNG
\* np.random's global RandomState, abstracted as a linear congruential
\* generator: every draw advances the one ambient state.
RngA == 75
RngC == 74
RngM == 65537
NextRng(s) == (s * RngA + RngC) % RngM

\* RandomState.permutation(n): Fisher-Yates from the last position down, one
\* draw per position; gives the permutation and the state it leaves behind.
RECURSIVE Shuffle(_, _, _)
Shuffle(x, i, s) ==
  IF i <= 1 THEN [perm |-> x, rng |-> s]
  ELSE LET s2 == NextRng(s)
           j == (s2 % i) + 1
       IN Shuffle(Swap(x, i, j), i - 1, s2)

Permutation(s, n) == Shuffle([k \in 1..n |-> k], n, s)

\* ------------------------------------------------------- the input file
\* Record id of the file: its SMILES parses unless it is the malformed one,
\* its band gap, and the value descriptor c takes on its molecule.
SmilesOk(f, id) == id # f.bad
Bandgap(f, id) == id % 4
Descriptor(f, id, c) ==
  LET k == f.kinds[c] IN
  IF k = "allnan" THEN NaN
  ELSE IF k = "const" \/ id # f.e THEN 1
  ELSE IF k = "vary" THEN 2
  ELSE IF k = "err" THEN Err
  ELSE NaN

Files ==
  UNION {[n : {n}, bad : {0, 1}, e : 1..n, kinds : [1..NCols -> Kinds]]
           : n \in SampleSize..(SampleSize + MaxExtra)}

\* pd.read_json(...).sample(SampleSize): no random_state, so the ambient RNG
\* draws a permutation of the file's rows and the first SampleSize are kept.
Sample(f, s) ==
  LET p == Permutation(s, f.n)
  IN [rows |-> [k \in 1..SampleSize |->
                  [id |-> p.perm[k], smiles_ok |-> SmilesOk(f, p.perm[k]),
                   bandgap |-> Bandgap(f, p.perm[k]), mol |-> "-"]],
      rng |-> p.rng]

\* Chem.MolFromSmiles: a molecule, or None for a string that does not parse.
MolFromSmiles(ok) == IF ok THEN "Mol" ELSE "None"

\* ------------------------------------------------------ descriptor table
\* A table is [columns |-> sequence of column names,
\*             rows |-> sequence of [mol |-> id of the molecule the row was
\*                                   computed from, v |-> [column -> cell]]].
NoTable == [columns |-> <<>>, rows |-> <<>>]

ColumnOf(t, c) == [i \in 1..Len(t.rows) |-> t.rows[i].v[c]]

\* the table with only the columns of the set keep, in their order
KeepColumns(t, keep) ==
  LET cs == SelectSeq(t.columns, LAMBDA c : c \in keep)
  IN [columns |-> cs,
      rows |-> [i \in 1..Len(t.rows) |->
                  [mol |-> t.rows[i].mol,
                   v |-> [c \in Range(cs) |-> t.rows[i].v[c]]]]]

\* calc.pandas(mols): one row per molecule, in the order given.
CalcPandas(f, mols, ids) ==
  [columns |-> [c \in 1..NCols |-> c],
   rows |-> [i \in 1..Len(mols) |->
               [mol |-> ids[i], v |-> [c \in 1..NCols |-> Descriptor(f, ids[i], c)]]]]

\* n*sum(x^2) - sum(x)^2 of a sequence of numbers: zero iff all are equal
VarTimesNSq(xs) ==
  Len(xs) * SumSeq([i \in DOMAIN xs |-> xs[i] * xs[i]]) - SumSeq(xs) * SumSeq(xs)

\* desc.std(): per column, skipping NaN, with ddof=1.  A column holding a
\* non-numeric object is left out of the result; fewer than two valid values
\* give NaN.  The number returned is zero exactly when the std is zero.
HasStd(t, c) == \A i \in 1..Len(t.rows) : t.rows[i].v[c] # Err
Std(t, c) ==
  LET valid == SelectSeq(ColumnOf(t, c), IsNum)
  IN IF Len(valid) < 2 THEN NaN ELSE VarTimesNSq(valid)

\* [c for c, s in desc.std().items() if s == 0]
ZeroVariationOf(t) ==
  SelectSeq(t.columns, LAMBDA c : HasStd(t, c) /\ Std(t, c) = 0)

\* pd.to_numeric(desc[c], errors='coerce') for every column
ToNumericCell(x) == IF IsNum(x) THEN x ELSE NaN
ToNumericTable(t) ==
  [t EXCEPT !.rows = [i \in 1..Len(t.rows) |->
     [t.rows[i] EXCEPT !.v = [c \in DOMAIN t.rows[i].v |-> ToNumericCell(t.rows[i].v[c])]]]]

\* A column counted as missing only when every row is (all() in place of any()).
MissingAllRows(t) ==
  [c \in Range(t.columns) |-> \A i \in 1..Len(t.rows) : t.rows[i].v[c] = NaN]
\* desc.isnull().any(): per column, whether any row is missing
IsNullAny(t) ==
  [c \in Range(t.columns) |-> \E i \in 1..Len(t.rows) : t.rows[i].v[c] = NaN]

\* ---------------------------------------------------------------- Init
Init ==
  /\ pc = "load"
  /\ rng = Seed
  /\ qm9 \in Files
  /\ data = <<>>
  /\ calc_mols = <<>>
  /\ desc = NoTable
  /\ zero_variation = <<>>
  /\ missing_values = <<>>
  /\ scaler = [fitted |-> FALSE]
  /\ train_data = <<>>
  /\ test_data = <<>>
  /\ train_desc = NoTable
  /\ test_desc = NoTable
  /\ model = [made |-> FALSE]
  /\ predicted = <<>>
  /\ predicted_by = <<>>
  /\ plot_i = 1
  /\ reports = {}

\* data = pd.read_json(...).sample(1024)
LoadAndSample ==
  /\ pc = "load"
  /\ LET s == Sample(qm9, rng) IN data' = s.rows /\ rng' = s.rng
  /\ pc' = "parse"
  /\ UNCHANGED <<qm9, calc_mols, desc, zero_variation, missing_values, scaler,
                 train_data, test_data, train_desc, test_desc, model,
                 predicted, predicted_by, plot_i, reports>>

\* data['mol'] = data['smiles_0'].apply(Chem.MolFromSmiles)
ParseSmiles ==
  /\ pc = "parse"
  /\ data' = [i \in 1..Len(data) |->
                [data[i] EXCEPT !.mol = MolFromSmiles(data[i].smiles_ok)]]
  /\ pc' = "calc"
  /\ UNCHANGED <<rng, qm9, calc_mols, desc, zero_variation, missing_values, scaler,
                 train_data, test_data, train_desc, test_desc, model,
                 predicted, predicted_by, plot_i, reports>>

\* desc = calc.pandas(data['mol'], nproc=1): the whole column is handed over as
\* it is; the descriptor engine raises on a None molecule and the run ends.
CalcDescriptors ==
  /\ pc = "calc"
  /\ calc_mols' = [i \in 1..Len(data) |-> data[i].mol]
  /\ IF \E i \in 1..Len(data) : data[i].mol = "None"
     THEN pc' = "raised" /\ desc' = desc
     ELSE /\ desc' = CalcPandas(qm9, calc_mols', [i \in 1..Len(data) |-> data[i].id])
          /\ pc' = "zero_variation"
  /\ UNCHANGED <<rng, qm9, data, zero_variation, missing_values, scaler,
                 train_data, test_data, train_desc, test_desc, model,
                 predicted, predicted_by, plot_i, reports>>

\* zero_variation = [c for c, s in desc.std().items() if s == 0]
ZeroVariation ==
  /\ pc = "zero_variation"
  /\ zero_variation' = ZeroVariationOf(desc)
  /\ pc' = "drop_zero"
  /\ UNCHANGED <<rng, qm9, data, calc_mols, desc, missing_values, scaler,
                 train_data, test_data, train_desc, test_desc, model,
                 predicted, predicted_by, plot_i, reports>>

\* A drop whose result is thrown away (drop without inplace=True).
DropNotInPlace ==
  /\ pc = "drop_zero"
  /\ desc' = desc
  /\ pc' = "to_numeric"
  /\ UNCHANGED <<rng, qm9, data, calc_mols, zero_variation, missing_values, scaler,
                 train_data, test_data, train_desc, test_desc, model,
                 predicted, predicted_by, plot_i, reports>>

\* desc.drop(columns=zero_variation, inplace=True)
DropZeroVariation ==
  /\ pc = "drop_zero"
  /\ desc' = KeepColumns(desc, Range(desc.columns) \ Range(zero_variation))
  /\ pc' = "to_numeric"
  /\ UNCHANGED <<rng, qm9, data, calc_mols, zero_variation, missing_values, scaler,
                 train_data, test_data, train_desc, test_desc, model,
                 predicted, predicted_by, plot_i, reports>>

\* for c in desc.columns: desc[c] = pd.to_numeric(desc[c], errors='coerce')
ToNumeric ==
  /\ pc = "to_numeric"
  /\ desc' = ToNumericTable(desc)
  /\ pc' = "missing"
  /\ UNCHANGED <<rng, qm9, data, calc_mols, zero_variation, missing_values, scaler,
                 train_data, test_data, train_desc, test_desc, model,
                 predicted, predicted_by, plot_i, reports>>

\* missing_values = desc.isnull().any()
MissingValues ==
  /\ pc = "missing"
  /\ missing_values' = IsNullAny(desc)
  /\ pc' = "drop_missing"
  /\ UNCHANGED <<rng, qm9, data, calc_mols, desc, zero_variation, scaler,
                 train_data, test_data, train_desc, test_desc, model,
                 predicted, predicted_by, plot_i, reports>>

\* desc = desc.loc[:, ~missing_values]
DropMissing ==
  /\ pc = "drop_missing"
  /\ desc' = KeepColumns(desc, {c \in Range(desc.columns) : ~missing_values[c]})
  /\ pc' = "scale"
  /\ UNCHANGED <<rng, qm9, data, calc_mols, zero_variation, missing_values, scaler,
                 train_data, test_data, train_desc, test_desc, model,
                 predicted, predicted_by, plot_i, reports>>

\* ------------------------------------------------------- StandardScaler
\* StandardScaler().fit(X): per column the mean (as <<sum, n>>), the variance
\* (times n^2) and the scale (squared, times n^2), where a zero scale is
\* replaced by 1; seen is the set of molecules whose rows the fit has read.
StandardScalerFit(X) ==
  LET n == Len(X.rows)
      cs == Range(X.columns)
  IN [fitted |-> TRUE,
      n_samples_seen_ |-> n,
      mean_ |-> [c \in cs |-> <<SumSeq(ColumnOf(X, c)), n>>],
      var_ |-> [c \in cs |-> VarTimesNSq(ColumnOf(X, c))],
      scale_sq_ |-> [c \in cs |-> IF VarTimesNSq(ColumnOf(X, c)) = 0
                                   THEN n * n ELSE VarTimesNSq(ColumnOf(X, c))],
      seen |-> {X.rows[i].mol : i \in 1..Len(X.rows)}]

\* scaler = StandardScaler(); feats = scaler.fit_transform(desc)
\* (a table without columns is refused by the fit's input validation).
\* The cells between this one and the split (corrcoef, the stand-alone PCA and
\* LassoCV on feats, the plots) draw no random number and write nothing that a
\* later cell reads; they are not steps of the model.
ScalerFitTransform ==
  /\ pc = "scale"
  /\ IF desc.columns = <<>>
     THEN pc' = "raised:fit_transform" /\ scaler' = scaler
     ELSE scaler' = StandardScalerFit(desc) /\ pc' = "split"
  /\ UNCHANGED <<rng, qm9, data, calc_mols, desc, zero_variation, missing_values,
                 train_data, test_data, train_desc, test_desc, model,
                 predicted, predicted_by, plot_i, reports>>

\* ------------------------------------------------------ train_test_split
NTest(n) == (n * TestSizeNum + TestSizeDen - 1) \div TestSizeDen

\* The second array split by a permutation of its own (two separate calls).
train_test_split_separately(s, a, b) ==
  LET n == Len(a)
      p == Permutation(s, n)
      q == Permutation(p.rng, n)
      test == SubSeq(p.perm, 1, NTest(n))
      train == SubSeq(p.perm, NTest(n) + 1, n)
  IN [train_a |-> SafeIndexing(a, train),
      test_a |-> SafeIndexing(a, test),
      train_b |-> [b EXCEPT !.rows = SafeIndexing(b.rows, SubSeq(q.perm, NTest(n) + 1, n))],
      test_b |-> [b EXCEPT !.rows = SafeIndexing(b.rows, SubSeq(q.perm, 1, NTest(n)))],
      rng |-> q.rng]

\* train_test_split(a, b, test_size=0.1): no random_state, so the ambient RNG
\* draws one permutation of the row positions; its first ceil(0.1 n) positions
\* are the test rows, the rest the train rows, and the same positions are taken
\* from every array.
train_test_split(s, a, b) ==
  LET n == Len(a)
      p == Permutation(s, n)
      test == SubSeq(p.perm, 1, NTest(n))
      train == SubSeq(p.perm, NTest(n) + 1, n)
  IN [train_a |-> SafeIndexing(a, train),
      test_a |-> SafeIndexing(a, test),
      train_b |-> [b EXCEPT !.rows = SafeIndexing(b.rows, train)],
      test_b |-> [b EXCEPT !.rows = SafeIndexing(b.rows, test)],
      rng |-> p.rng]

\* train_data, test_data, train_desc, test_desc = train_test_split(data, desc, test_size=0.1)
TrainTestSplit ==
  /\ pc = "split"
  /\ LET r == train_test_split(rng, data, desc)
     IN /\ train_data' = r.train_a
        /\ test_data' = r.test_a
        /\ train_desc' = r.train_b
        /\ test_desc' = r.test_b
        /\ rng' = r.rng
  /\ pc' = "pipeline"
  /\ UNCHANGED <<qm9, data, calc_mols, desc, zero_variation, missing_values, scaler,
                 model, predicted, predicted_by, plot_i, reports>>

\* -------------------------------------------------------------- Pipeline
\* model = Pipeline([('scale', StandardScaler()), ('pca', PCA(n_components=16)),
\*                   ('lasso', LassoCV())])
MakePipeline ==
  /\ pc = "pipeline"
  /\ model' = [made |-> TRUE, n_components |-> NComp16, fits |-> 0,
               scale |-> [fitted |-> FALSE],
               pca |-> [fitted |-> FALSE],
               lasso |-> [fitted |-> FALSE]]
  /\ pc' = "fit16"
  /\ UNCHANGED <<rng, qm9, data, calc_mols, desc, zero_variation, missing_values,
                 scaler, train_data, test_data, train_desc, test_desc,
                 predicted, predicted_by, plot_i, reports>>

\* Pipeline.fit(X, y): every step is fit anew, in order, on X; the PCA keeps
\* the component count that is set at the time of the fit.  fits counts the
\* fit calls made on the pipeline object.  (PCA's refusal of a component count
\* above the number of features is left out: the table is scaled down to NCols
\* columns while the counts 16 and 8 are kept as they are.)
PipelineFit(m, X) ==
  [m EXCEPT !.fits = @ + 1,
            !.scale = StandardScalerFit(X),
            !.pca = [fitted |-> TRUE, n_components_ |-> m.n_components,
                     seen |-> {X.rows[i].mol : i \in 1..Len(X.rows)}],
            !.lasso = [fitted |-> TRUE, n_features_in_ |-> m.n_components]]

\* A fit on the whole descriptor table instead of the train partition.
ModelFitAllRows ==
  /\ pc \in {"fit16", "fit8"}
  /\ model' = PipelineFit(model, desc)
  /\ pc' = IF pc = "fit16" THEN "predict16" ELSE "predict8"
  /\ UNCHANGED <<rng, qm9, data, calc_mols, desc, zero_variation, missing_values,
                 scaler, train_data, test_data, train_desc, test_desc,
                 predicted, predicted_by, plot_i, reports>>

\* A pipeline that is fit once and not again after set_params.
ModelFitOnce ==
  /\ pc \in {"fit16", "fit8"}
  /\ model' = IF model.fits = 0 THEN PipelineFit(model, train_desc) ELSE model
  /\ pc' = IF pc = "fit16" THEN "predict16" ELSE "predict8"
  /\ UNCHANGED <<rng, qm9, data, calc_mols, desc, zero_variation, missing_values,
                 scaler, train_data, test_data, train_desc, test_desc,
                 predicted, predicted_by, plot_i, reports>>

\* model.fit(train_desc, train_data['bandgap']), in both cells that call it
ModelFit ==
  /\ pc \in {"fit16", "fit8"}
  /\ model' = PipelineFit(model, train_desc)
  /\ pc' = IF pc = "fit16" THEN "predict16" ELSE "predict8"
  /\ UNCHANGED <<rng, qm9, data, calc_mols, desc, zero_variation, missing_values,
                 scaler, train_data, test_data, train_desc, test_desc,
                 predicted, predicted_by, plot_i, reports>>

\* What a stored prediction column was computed with: the fitted pipeline's
\* component count, the count set on the pipeline, the number of the fit, the
\* molecules that fit has read and the molecules predicted for.
PredictedBy(m, X) ==
  [n_components_ |-> m.pca.n_components_, n_components |-> m.n_components,
   fit |-> m.fits, fitted_on |-> m.pca.seen,
   rows |-> [i \in 1..Len(X.rows) |-> X.rows[i].mol]]

\* A predict that fits the scaler on the rows it is given (fit_transform in
\* place of transform).
ModelPredictRefits ==
  /\ pc \in {"predict16", "predict8"}
  /\ LET col == IF pc = "predict16" THEN Col16 ELSE Col8
     IN /\ \E p \in [1..Len(test_desc.rows) -> PredVals] :
             predicted' = (col :> p) @@ predicted
        /\ predicted_by' = (col :> PredictedBy(model, test_desc)) @@ predicted_by
  /\ model' = [model EXCEPT !.scale = StandardScalerFit(test_desc)]
  /\ pc' = IF pc = "predict16" THEN "set_params" ELSE "plot"
  /\ UNCHANGED <<rng, qm9, data, calc_mols, desc, zero_variation, missing_values,
                 scaler, train_data, test_data, train_desc, test_desc,
                 plot_i, reports>>

\* test_data[col] = model.predict(test_desc): the fitted steps are applied and
\* the regressor's outputs (any values, one per row) are stored under col; the
\* pipeline is left as it is.
ModelPredict ==
  /\ pc \in {"predict16", "predict8"}
  /\ LET col == IF pc = "predict16" THEN Col16 ELSE Col8
     IN /\ \E p \in [1..Len(test_desc.rows) -> PredVals] :
             predicted' = (col :> p) @@ predicted
        /\ predicted_by' = (col :> PredictedBy(model, test_desc)) @@ predicted_by
  /\ pc' = IF pc = "predict16" THEN "set_params" ELSE "plot"
  /\ UNCHANGED <<rng, qm9, data, calc_mols, desc, zero_variation, missing_values,
                 scaler, train_data, test_data, train_desc, test_desc, model,
                 plot_i, reports>>

\* model.set_params(pca__n_components=8)
SetParams ==
  /\ pc = "set_params"
  /\ model' = [model EXCEPT !.n_components = NComp8]
  /\ pc' = "fit8"
  /\ UNCHANGED <<rng, qm9, data, calc_mols, desc, zero_variation, missing_values,
                 scaler, train_data, test_data, train_desc, test_desc,
                 predicted, predicted_by, plot_i, reports>>

\* --------------------------------------------------------------- metrics
\* sklearn.metrics.r2_score(y_true, y_pred) = 1 - SS_res / SS_tot with SS_tot
\* taken about the mean of y_true, as a fraction [num, den] (both sums times
\* n^2).  A zero SS_tot scores 1 for a perfect fit and 0 otherwise; fewer
\* than two samples score NaN (den = 0).
r2_score(y_true, y_pred) ==
  LET n == Len(y_true)
      res == n * n * SumSeq([i \in 1..n |-> (y_true[i] - y_pred[i]) * (y_true[i] - y_pred[i])])
      tot == SumSeq([i \in 1..n |-> (n * y_true[i] - SumSeq(y_true))
                                      * (n * y_true[i] - SumSeq(y_true))])
  IN IF n < 2 THEN [num |-> 0, den |-> 0]
     ELSE IF tot = 0 THEN [num |-> IF res = 0 THEN 1 ELSE 0, den |-> 1]
     ELSE [num |-> tot - res, den |-> tot]

TestBandgap == [i \in 1..Len(test_data) |-> test_data[i].bandgap]

\* for ax, col in zip(axs, ['8-ncomp-model', '16-ncomp-model']):
\*     r2 = r2_score(test_data[col], test_data['bandgap']); ax.text(... r2 ...)
\* one iteration of the loop: the score is computed and written on the plot.
PlotModel ==
  /\ pc = "plot"
  /\ LET col == PlotCols[plot_i]
     IN reports' = reports \cup
          {[metric |-> "r2", col |-> col,
            value |-> r2_score(predicted[col], TestBandgap)]}
  /\ plot_i' = plot_i + 1
  /\ pc' = IF plot_i = Len(PlotCols) THEN "done" ELSE "plot"
  /\ UNCHANGED <<rng, qm9, data, calc_mols, desc, zero_variation, missing_values,
                 scaler, train_data, test_data, train_desc, test_desc, model,
                 predicted, predicted_by>>

Next ==
  \/ LoadAndSample
  \/ ParseSmiles
  \/ CalcDescriptors
  \/ ZeroVariation
  \/ DropZeroVariation
  \/ ToNumeric
  \/ MissingValues
  \/ DropMissing
  \/ ScalerFitTransform
  \/ TrainTestSplit
  \/ MakePipeline
  \/ ModelFit
  \/ ModelPredict
  \/ SetParams
  \/ PlotModel

Spec == Init /\ [][Next]_vars

\* ================================================================ claims
Ids(rows) == {rows[i].id : i \in 1..Len(rows)}

Cleaned ==
  pc \in {"scale", "raised:fit_transform", "split", "pipeline", "fit16", "predict16",
          "set_params", "fit8", "predict8", "plot", "done"}
SplitDone ==
  pc \in {"pipeline", "fit16", "predict16", "set_params", "fit8", "predict8",
          "plot", "done"}
PipelineFitted == model.made /\ model.scale.fitted

Constant(xs) == \A i, j \in DOMAIN xs : xs[i] = xs[j]

\* C1: once the cleaner's three steps have run, every column left in desc holds
\* only numbers (no missing value) and is not constant over the rows.
C1_CleanedColumns ==
  Cleaned =>
    \A c \in Range(desc.columns) :
      /\ \A i \in 1..Len(desc.rows) : IsNum(desc.rows[i].v[c])
      /\ ~Constant(ColumnOf(desc, c))

\* C1 witness: a column that was constant apart from one error object (so it had
\* no std when zero_variation was computed and became numeric only at the
\* coercion) is gone after cleaning, while another column survived.
C1_Witness ==
  /\ Cleaned
  /\ desc.columns # <<>>
  /\ \E c \in 1..NCols :
       /\ qm9.kinds[c] = "err"
       /\ qm9.e \in Ids(data)
       /\ c \notin Range(zero_variation)
       /\ c \notin Range(desc.columns)

\* C2: after the split, row i of train_desc (of test_desc) is the descriptor
\* vector of the molecule of row i of train_data (of test_data), and the two
\* partitions together are the rows of data.
C2_RowPairing ==
  SplitDone =>
    /\ Len(train_desc.rows) = Len(train_data)
    /\ Len(test_desc.rows) = Len(test_data)
    /\ \A i \in 1..Len(train_data) :
         /\ train_desc.rows[i].mol = train_data[i].id
         /\ \A c \in Range(train_desc.columns) :
              train_desc.rows[i].v[c] = Descriptor(qm9, train_data[i].id, c)
    /\ \A i \in 1..Len(test_data) :
         /\ test_desc.rows[i].mol = test_data[i].id
         /\ \A c \in Range(test_desc.columns) :
              test_desc.rows[i].v[c] = Descriptor(qm9, test_data[i].id, c)
    /\ Ids(train_data) \cup Ids(test_data) = Ids(data)
    /\ Ids(train_data) \cap Ids(test_data) = {}

\* C2 witness: a split that moved rows: the first test row is not the first row
\* of data, and the molecule whose descriptor differs is in the test partition.
C2_Witness ==
  /\ SplitDone
  /\ Len(test_data) >= 2
  /\ test_data[1].id # data[1].id
  /\ qm9.e \in Ids(test_data)
  /\ \E c \in Range(test_desc.columns) : ~Constant(ColumnOf(test_desc, c))

\* C3: no None molecule is ever handed to calc.pandas, and the run does not end
\* there (the malformed record is excluded and the run goes on).
C3_MalformedExcluded ==
  /\ \A i \in DOMAIN calc_mols : calc_mols[i] # "None"
  /\ pc # "raised:calc.pandas"

\* C4 as amended: the pipeline's scaler, whenever it is fitted, has read exactly
\* the rows of the train partition and none of the test partition; the
\* standalone scaler has read every row of the cleaned table.
C4_PipelineScalerTrainOnly ==
  /\ PipelineFitted =>
       /\ model.scale.seen = Ids(train_data)
       /\ model.scale.seen \cap Ids(test_data) = {}
       /\ model.scale.n_samples_seen_ = Len(train_data)
  /\ scaler.fitted => scaler.seen = Ids(data)

\* C4 witness: the pipeline's scaler is fitted and a test partition exists.
C4_Witness ==
  /\ PipelineFitted
  /\ Len(test_data) >= 1
  /\ model.fits = 2

\* C4 as stated: no fitted scaler, standalone or in the pipeline, has read a row
\* of the test partition.
C4_AllScalersTrainOnly ==
  SplitDone =>
    /\ scaler.fitted => scaler.seen \cap Ids(test_data) = {}
    /\ PipelineFitted => model.scale.seen \cap Ids(test_data) = {}

\* C5 as amended: at the standalone fit every column has a nonzero std over the
\* rows the scaler is fit on; at a pipeline fit every column has a nonzero std
\* over the whole cleaned table (not necessarily over the train partition).
C5_NonzeroStdOverCleanedTable ==
  /\ scaler.fitted => \A c \in DOMAIN scaler.var_ : scaler.var_[c] # 0
  /\ PipelineFitted =>
       \A c \in DOMAIN model.scale.var_ : VarTimesNSq(ColumnOf(desc, c)) # 0

\* C5 witness: a pipeline fit at which a column is constant over the train
\* partition (its scale was replaced by 1).
C5_Witness ==
  /\ PipelineFitted
  /\ \E c \in DOMAIN model.scale.var_ :
       /\ model.scale.var_[c] = 0
       /\ model.scale.scale_sq_[c] = model.scale.n_samples_seen_ * model.scale.n_samples_seen_

\* C5 as stated: at every scaler fit, standalone or in the pipeline, every
\* column has a nonzero std over the rows the scaler is fit on.
C5_NonzeroStdAtEveryFit ==
  /\ scaler.fitted => \A c \in DOMAIN scaler.var_ : scaler.var_[c] # 0
  /\ PipelineFitted => \A c \in DOMAIN model.scale.var_ : model.scale.var_[c] # 0

\* C6: the split is determined by its own seed and its input: it is the split
\* the same call gives on the same data with no random draw made before it.
C6_SplitIndependentOfPriorDraws ==
  SplitDone =>
    LET r == train_test_split(Seed, data, desc)
    IN /\ [i \in 1..Len(test_data) |-> test_data[i].id]
            = [i \in 1..Len(r.test_a) |-> r.test_a[i].id]
       /\ [i \in 1..Len(train_data) |-> train_data[i].id]
            = [i \in 1..Len(r.train_a) |-> r.train_a[i].id]

\* C7: once the pipeline's scaler is fitted, no step changes its mean, variance,
\* scale or the rows it has read.
C7_ScalerFrozen ==
  [][PipelineFitted => model'.scale = model.scale]_vars

\* C7 witness: the second fit of the reused pipeline has run.
C7_Witness ==
  /\ pc = "predict8"
  /\ model.fits = 2
  /\ Col16 \in DOMAIN predicted

\* C8: at the end of the run both a coefficient of determination and an
\* absolute-error metric have been reported for each of the two configurations.
C8_BothMetricsReported ==
  pc = "done" =>
    \A col \in {Col16, Col8} :
      /\ \E r \in reports : r.metric = "r2" /\ r.col = col
      /\ \E r \in reports : r.metric = "mae" /\ r.col = col

\* C9: every reported coefficient of determination is the one computed with the
\* true test band gaps as reference and the predictions as estimate.
C9_R2TrueIsReference ==
  \A r \in reports :
    r.metric = "r2" =>
      LET right == r2_score(TestBandgap, predicted[r.col])
      IN r.value.num * right.den = right.num * r.value.den

NCompOf(col) == IF col = Col16 THEN NComp16 ELSE NComp8

\* What holds of every stored prediction column: the pipeline that produced it
\* was fit on the train partition with the column's component count in force
\* (fit 1 for 16 components, fit 2 for 8) and predicted the test partition.
C10_StoredPredictions ==
  \A col \in DOMAIN predicted :
    /\ predicted_by[col].n_components_ = NCompOf(col)
    /\ predicted_by[col].n_components = NCompOf(col)
    /\ predicted_by[col].fit = (IF col = Col16 THEN 1 ELSE 2)
    /\ predicted_by[col].fitted_on = Ids(train_data)
    /\ predicted_by[col].rows = [i \in 1..Len(test_data) |-> test_data[i].id]

\* A step keeps the 16-component column once it is stored.
C10_Col16Kept ==
  Col16 \in DOMAIN predicted =>
    /\ Col16 \in DOMAIN predicted'
    /\ predicted'[Col16] = predicted[Col16]
    /\ predicted_by'[Col16] = predicted_by[Col16]

\* C10: every stored prediction column comes from a pipeline that was re-fit on
\* the train partition after the component count in force was set (never from a
\* stale fit) and predicted on the test partition of the one split; and once
\* the 16-component column is stored, no later step changes it.
C10_RefitPerConfiguration ==
  [](C10_StoredPredictions) /\ [][C10_Col16Kept]_vars

\* C10 witness: both columns are stored.
C10_Witness ==
  /\ Col16 \in DOMAIN predicted
  /\ Col8 \in DOMAIN predicted
  /\ model.n_components = NComp8
====
